---- MODULE Spec2Model ----
(***************************************************************************)
(* Model of graceful's media-type negotiation: the MediaHandlers registry  *)
(* (graceful/media/handlers.py), the BaseMediaHandler convenience bindings *)
(* (graceful/media/base.py) and the JSON codec (graceful/media/json.py).   *)
(*                                                                         *)
(* Python values are modelled as follows.                                  *)
(*   - a media type string is a TLA+ string; Python's None is NoneT;       *)
(*   - a dict is a sequence of [key, handler] entries in insertion order   *)
(*     (Python dicts iterate in insertion order, which best_match and the  *)
(*     dict comprehension of __init__ both observe);                      *)
(*   - a codec instance is named by a string; its class decides its        *)
(*     canonical media type, its allowed media types and what serialize    *)
(*     returns;                                                            *)
(*   - a byte stream is a sequence of one-character strings;               *)
(*   - a value that crosses the API is a record [kind, v].                 *)
(***************************************************************************)
EXTENDS Integers, Sequences, FiniteSets, TLC

VARIABLES
    constructed,          \* "none" | "ok" | "ValueError": outcome of __init__
    default_media_type,   \* MediaHandlers.default_media_type
    handlers,             \* MediaHandlers.handlers (ordered dict)
    allowed_media_types,  \* MediaHandlers.allowed_media_types (set)
    supplied,             \* the handlers argument __init__ was called with
    call,                 \* the last API call: its inputs and its outcome
    response,             \* the falcon.Response the last call wrote to
    fields,               \* _fields of the serializer class defined last
    ser,                  \* the last serializer call: its inputs and its outcome
    threads               \* the threads that call lookup_handler concurrently

vars == <<constructed, default_media_type, handlers, allowed_media_types,
          supplied, call, response, fields, ser, threads>>

----------------------------------------------------------------------------
(* Bounds of the model. *)

\* largest number of entries of the handlers mapping passed to __init__
MaxHandlers == 2
\* largest number of bytes of a request body
MaxLen == 2
\* largest number of entries of a serializer class body
MaxFields == 2

----------------------------------------------------------------------------
(* Media type strings. *)

NoneT == "None"
EmptyT == ""
AnyT == "*/*"
JsonT == "application/json"
JsonUtf8T == "application/json; charset=UTF-8"
JsonV1T == "application/json; version=1"
JsonQ0T == "application/json; q=0"
YamlT == "application/yaml"
AppAnyT == "application/*"
NopeT == "nope/json"
NopeOrYamlT == "nope/json, application/yaml"
GarbageT == "garbage"

\* Python truthiness of an optional string: None and '' are falsy
Truthy(s) == s # NoneT /\ s # EmptyT

\* Python's `a or b` on optional strings
Or(a, b) == IF Truthy(a) THEN a ELSE b

----------------------------------------------------------------------------
(* The mimeparse library, as lookup_handler uses it.  Strings are parsed   *)
(* by table over the media types of the model; matching and ranking are    *)
(* computed as the library computes them.  Quality values and fitness are  *)
(* scaled by 10 to stay in the integers.                                   *)

\* header.split(',') followed by _filter_blank and strip
split_header(header) ==
    IF header = EmptyT THEN <<>>
    ELSE IF header = NopeOrYamlT THEN <<NopeT, YamlT>>
    ELSE <<header>>

\* parse_mime_type + parse_media_range: (type, subtype, params) with the
\* q parameter normalised; ok = FALSE stands for MimeTypeParseException
parse_media_range(range) ==
    CASE range = JsonT     -> [ok |-> TRUE, type |-> "application", subtype |-> "json",
                               params |-> {}, q |-> 10]
      [] range = JsonUtf8T -> [ok |-> TRUE, type |-> "application", subtype |-> "json",
                               params |-> {<<"charset", "UTF-8">>}, q |-> 10]
      [] range = JsonV1T   -> [ok |-> TRUE, type |-> "application", subtype |-> "json",
                               params |-> {<<"version", "1">>}, q |-> 10]
      [] range = JsonQ0T   -> [ok |-> TRUE, type |-> "application", subtype |-> "json",
                               params |-> {}, q |-> 0]
      [] range = YamlT     -> [ok |-> TRUE, type |-> "application", subtype |-> "yaml",
                               params |-> {}, q |-> 10]
      [] range = AppAnyT   -> [ok |-> TRUE, type |-> "application", subtype |-> "*",
                               params |-> {}, q |-> 10]
      [] range = AnyT      -> [ok |-> TRUE, type |-> "*", subtype |-> "*",
                               params |-> {}, q |-> 10]
      [] range = NopeT     -> [ok |-> TRUE, type |-> "nope", subtype |-> "json",
                               params |-> {}, q |-> 10]
      [] OTHER             -> [ok |-> FALSE, type |-> "", subtype |-> "",
                               params |-> {}, q |-> 10]

\* the fitness of one parsed range for a target, or -10 when it does not match
fitness_of(target, range) ==
    LET type_match == range.type \in {target.type, "*"} \/ target.type = "*"
        subtype_match == range.subtype \in {target.subtype, "*"} \/ target.subtype = "*"
    IN  IF type_match /\ subtype_match
        THEN 10 * ( (IF range.type = target.type THEN 100 ELSE 0)
                  + (IF range.subtype = target.subtype THEN 10 ELSE 0)
                  + Cardinality(target.params \cap range.params) )
             + target.q
        ELSE -10

\* quality_and_fitness_parsed: the first range of best fitness decides q
RECURSIVE quality_and_fitness_from(_, _, _, _)
quality_and_fitness_from(target, parsed_ranges, i, best) ==
    IF i > Len(parsed_ranges) THEN best
    ELSE LET f == fitness_of(target, parsed_ranges[i])
         IN  quality_and_fitness_from(target, parsed_ranges, i + 1,
                 IF f > best.fitness
                 THEN [q |-> parsed_ranges[i].q, fitness |-> f]
                 ELSE best)

quality_and_fitness_parsed(mime_type, parsed_ranges) ==
    quality_and_fitness_from(parse_media_range(mime_type), parsed_ranges, 1,
                             [q |-> 0, fitness |-> -10])

\* one entry of weighted_matches
weighted_match(quality_and_fitness, pos) ==
    [q |-> quality_and_fitness.q, fitness |-> quality_and_fitness.fitness, pos |-> pos]

\* the order weighted_matches.sort() puts on (quality_and_fitness, pos)
weight_less(a, b) ==
    \/ a.q < b.q
    \/ a.q = b.q /\ a.fitness < b.fitness
    \/ a.q = b.q /\ a.fitness = b.fitness /\ a.pos < b.pos

\* weighted_matches[-1] after the sort
last_match(weighted_matches) ==
    CHOOSE w \in weighted_matches :
        \A v \in weighted_matches : v = w \/ weight_less(v, w)

\* weighted_matches[-1][0][0] and weighted_matches[-1][2] or ''
match_or_empty(supported, last) ==
    IF last.q # 0 THEN supported[last.pos] ELSE EmptyT

\* the parsed ranges of a header
parse_header(ranges) == [i \in 1..Len(ranges) |-> parse_media_range(ranges[i])]

best_match_parsed(supported, parsed_header) ==
    IF \/ \E i \in 1..Len(parsed_header) : ~parsed_header[i].ok
       \/ \E pos \in 1..Len(supported) : ~parse_media_range(supported[pos]).ok
    THEN [raised |-> TRUE, resolved |-> EmptyT]
    ELSE [raised |-> FALSE,
          resolved |-> match_or_empty(supported, last_match(
              { weighted_match(quality_and_fitness_parsed(supported[pos], parsed_header),
                               pos) : pos \in 1..Len(supported) }))]

\* best_match(supported, header): [raised, resolved]; raised stands for the
\* ValueError of an unparsable media type, resolved = '' for no match
best_match(supported, header) ==
    best_match_parsed(supported, parse_header(split_header(header)))

----------------------------------------------------------------------------
(* Python dicts: a sequence of [key, handler] entries in insertion order. *)

dict_keys(d) == { d[i].key : i \in 1..Len(d) }

\* list(d): the keys in insertion order
dict_list(d) == [i \in 1..Len(d) |-> d[i].key]

\* d.get(k, None)
dict_get(d, k) ==
    IF k \in dict_keys(d)
    THEN (CHOOSE e \in { d[i] : i \in 1..Len(d) } : e.key = k).handler
    ELSE NoneT

\* d[k] = v: an existing key keeps its position, a new key goes last
dict_set(d, k, v) ==
    IF k \in dict_keys(d)
    THEN [i \in 1..Len(d) |-> IF d[i].key = k THEN [key |-> k, handler |-> v] ELSE d[i]]
    ELSE Append(d, [key |-> k, handler |-> v])

\* d.update(e), and dict(pairs): dict_set of each entry in order
RECURSIVE dict_update(_, _)
dict_update(d, e) ==
    IF e = <<>> THEN d
    ELSE dict_update(dict_set(d, Head(e).key, Head(e).handler), Tail(e))

----------------------------------------------------------------------------
(* Codec instances: JSONHandler (graceful/media/json.py) and, from the     *)
(* tests, a YAML codec; each is a BaseMediaHandler.                        *)

\* the two JSONHandler() instances of the built-in mapping
BuiltinCodecs == {"builtin_json", "builtin_json_utf8"}
\* instances an application passes to MediaHandlers
SuppliedCodecs == {"json_handler", "json_extra", "yaml_handler"}
Codecs == BuiltinCodecs \cup SuppliedCodecs

\* the media_type property of a codec
codec_media_type(c) == IF c = "yaml_handler" THEN YamlT ELSE JsonT

\* the extra_media_types a codec instance was constructed with
codec_extra_media_types(c) == IF c = "json_extra" THEN <<JsonUtf8T>> ELSE <<>>

\* an __init__ that drops extra_media_types: set([self.media_type])
base_init_own_type_only(media_type, extra_media_types) == {media_type}

\* BaseMediaHandler.__init__: set([self.media_type] + extra_media_types)
base_init(media_type, extra_media_types) ==
    {media_type} \cup { extra_media_types[i] : i \in 1..Len(extra_media_types) }

codec_allowed_media_types(c) ==
    base_init(codec_media_type(c), codec_extra_media_types(c))

\* whether the codec's serialize returns bytes (else str)
codec_emits_bytes(c) == c = "yaml_handler"

\* iteration over a Python set visits its elements in an order the program
\* does not control; sets here have at most two elements, so a flag covers
\* every order
set_iteration(S, rev) ==
    IF Cardinality(S) <= 1 THEN IF S = {} THEN <<>> ELSE <<CHOOSE x \in S : TRUE>>
    ELSE LET a == CHOOSE x \in S : TRUE
             b == CHOOSE x \in S \ {a} : TRUE
         IN  IF rev THEN <<b, a>> ELSE <<a, b>>

----------------------------------------------------------------------------
(* MediaHandlers.__init__ *)

\* the built-in mapping used when no handlers are supplied
builtin_handlers ==
    << [key |-> JsonT, handler |-> "builtin_json"],
       [key |-> JsonUtf8T, handler |-> "builtin_json_utf8"] >>

\* the comprehension without its `if media_type not in self.handlers`
RECURSIVE extra_pairs_unfiltered(_, _, _)
extra_pairs_unfiltered(items, registered, rev) ==
    IF items = <<>> THEN <<>>
    ELSE LET handler == Head(items).handler
             types == set_iteration(codec_allowed_media_types(handler), rev)
         IN  [i \in 1..Len(types) |-> [key |-> types[i], handler |-> handler]]
             \o extra_pairs_unfiltered(Tail(items), registered, rev)

\* the (media_type, handler) pairs of the extra_handlers comprehension, in
\* the order the comprehension produces them
RECURSIVE extra_pairs(_, _, _)
extra_pairs(items, registered, rev) ==
    IF items = <<>> THEN <<>>
    ELSE LET handler == Head(items).handler
             types == set_iteration(codec_allowed_media_types(handler), rev)
             mine == SelectSeq([i \in 1..Len(types) |->
                                    [key |-> types[i], handler |-> handler]],
                               LAMBDA e : e.key \notin registered)
         IN  mine \o extra_pairs(Tail(items), registered, rev)

\* __init__ with the default checked before the aliases are added
MediaHandlers_init_checks_early(default, handlers_arg, rev) ==
    LET self_handlers == IF handlers_arg.given /\ handlers_arg.items # <<>>
                         THEN handlers_arg.items
                         ELSE builtin_handlers
        extra_handlers == IF handlers_arg.given
                          THEN dict_update(<<>>, extra_pairs(handlers_arg.items,
                                                            dict_keys(self_handlers), rev))
                          ELSE <<>>
        updated == dict_update(self_handlers, extra_handlers)
    IN  [raised |-> default \notin dict_keys(self_handlers),
         default_media_type |-> default,
         handlers |-> updated,
         allowed_media_types |-> base_init(default, dict_list(updated))]

\* __init__(default_media_type, handlers): handlers_arg is [given, items],
\* given = FALSE for handlers=None.  The result is the constructed object,
\* or raised = TRUE for the ValueError.
MediaHandlers_init(default, handlers_arg, rev) ==
    LET self_handlers == IF handlers_arg.given /\ handlers_arg.items # <<>>
                         THEN handlers_arg.items
                         ELSE builtin_handlers
        extra_handlers == IF handlers_arg.given
                          THEN dict_update(<<>>, extra_pairs(handlers_arg.items,
                                                            dict_keys(self_handlers), rev))
                          ELSE <<>>
        updated == dict_update(self_handlers, extra_handlers)
    IN  [raised |-> default \notin dict_keys(updated),
         default_media_type |-> default,
         handlers |-> updated,
         allowed_media_types |-> base_init(default, dict_list(updated))]

----------------------------------------------------------------------------
(* Values that cross the API: [kind, v] with v a sequence of characters.  *)
(* kind is "none" (Python's None), "codec" (a handler instance, v its      *)
(* name), "object" (a deserialized Python object), "text" (str) or         *)
(* "bytes".                                                                *)

NoneV == [kind |-> "none", v |-> <<>>]
CodecV(c) == [kind |-> "codec", v |-> <<c>>]

\* the outcome of a call: the exception raised ("" for a normal return),
\* the value returned, the registry's handlers afterwards, the rejected type
\* and the allowed types an unsupported-media-type message names, the
\* codecs whose deserialize ran, the number of read calls on the stream and
\* the bytes they took from it
Outcome(raised, ret, hs, msg_type, msg_allowed, deserialized, reads) ==
    [raised |-> raised, ret |-> ret, handlers |-> hs, msg_type |-> msg_type,
     msg_allowed |-> msg_allowed, deserialized |-> deserialized, reads |-> reads,
     consumed |-> <<>>]

Unsupported(hs, media_type, allowed) ==
    Outcome("HTTPUnsupportedMediaType", NoneV, hs, media_type, allowed, {}, 0)

----------------------------------------------------------------------------
(* MediaHandlers.lookup_handler.  self is the registry: [handlers,         *)
(* default_media_type, allowed_media_types].                               *)

\* the media_type property of the registry
MediaHandlers_media_type(self) == self.default_media_type

\* a normal return of lookup_handler
Found(hs, handler) == Outcome("", CodecV(handler), hs, NoneT, {}, {}, 0)

\* an assertion that lets a resolved key through: `assert resolved`
assert_resolved_and_index(self, m) ==
    IF m.raised THEN [ok |-> FALSE, key |-> EmptyT]
    ELSE IF ~Truthy(m.resolved) THEN [ok |-> FALSE, key |-> EmptyT]
    ELSE IF m.resolved \notin dict_keys(self.handlers)
         THEN [ok |-> FALSE, key |-> EmptyT]
         ELSE [ok |-> TRUE, key |-> m.resolved]

\* `assert not resolved; handler = self.handlers[resolved]`: ok = FALSE
\* stands for one of AssertionError, KeyError and ValueError
assert_and_index(self, m) ==
    IF m.raised THEN [ok |-> FALSE, key |-> EmptyT]
    ELSE IF Truthy(m.resolved) THEN [ok |-> FALSE, key |-> EmptyT]
    ELSE IF m.resolved \notin dict_keys(self.handlers)
         THEN [ok |-> FALSE, key |-> EmptyT]
         ELSE [ok |-> TRUE, key |-> m.resolved]

\* the try block of lookup_handler
pattern_resolve(self, media_type) ==
    assert_and_index(self, best_match(dict_list(self.handlers), media_type))

\* a lookup that remembers a rejected type under the default codec
lookup_resolved_caches_failure(self, media_type, resolved) ==
    IF ~resolved.ok
    THEN Unsupported(dict_set(self.handlers, media_type,
                              dict_get(self.handlers, self.default_media_type)),
                     media_type, self.allowed_media_types)
    ELSE Found(dict_set(self.handlers, media_type,
                        dict_get(self.handlers, resolved.key)),
               dict_get(self.handlers, resolved.key))

\* a lookup that answers an unmatched type with the default codec
lookup_resolved_falls_back(self, media_type, resolved) ==
    IF ~resolved.ok
    THEN Found(self.handlers, dict_get(self.handlers, self.default_media_type))
    ELSE Found(dict_set(self.handlers, media_type,
                        dict_get(self.handlers, resolved.key)),
               dict_get(self.handlers, resolved.key))

\* the except and else branches: fail, or cache the codec under media_type
lookup_resolved(self, media_type, resolved) ==
    IF ~resolved.ok
    THEN Unsupported(self.handlers, media_type, self.allowed_media_types)
    ELSE Found(dict_set(self.handlers, media_type,
                        dict_get(self.handlers, resolved.key)),
               dict_get(self.handlers, resolved.key))

\* the exact lookup and, when it finds nothing, the pattern match
lookup_exact(self, media_type, handler) ==
    IF handler # NoneT
    THEN Found(self.handlers, handler)
    ELSE lookup_resolved(self, media_type, pattern_resolve(self, media_type))

\* a substitution that ignores the default_media_type argument
substitute_default_own_only(self, media_type, default_arg) ==
    IF media_type = AnyT \/ ~Truthy(media_type)
    THEN MediaHandlers_media_type(self)
    ELSE media_type

\* the media type looked up for the arguments of lookup_handler
substitute_default(self, media_type, default_arg) ==
    IF media_type = AnyT \/ ~Truthy(media_type)
    THEN Or(default_arg, MediaHandlers_media_type(self))
    ELSE media_type

lookup_media_type(self, media_type) ==
    lookup_exact(self, media_type, dict_get(self.handlers, media_type))

lookup_handler(self, media_type, default_arg) ==
    lookup_media_type(self, substitute_default(self, media_type, default_arg))

----------------------------------------------------------------------------
(* Codecs: deserialize and serialize.                                      *)

\* the bytes a request body is made of: "1" is a JSON digit, "x" is not
\* JSON
Bytes == {"1", "x"}

\* stream.read(size) on a fresh stream: at most size bytes
stream_read(stream, size) ==
    SubSeq(stream, 1, IF size < Len(stream) THEN size ELSE Len(stream))

\* `content_length or 0`: content_length is <<>> for None, <<n>> for n
length_or_0(content_length) ==
    IF content_length = <<>> THEN 0 ELSE content_length[1]

\* JSONHandler.loads: the number a run of digits denotes, ValueError (ok =
\* FALSE) for anything else, the empty document included
json_loads(data) ==
    IF data # <<>> /\ \A i \in 1..Len(data) : data[i] = "1"
    THEN [ok |-> TRUE, obj |-> [kind |-> "object", v |-> data]]
    ELSE [ok |-> FALSE, obj |-> NoneV]

\* JSONHandler.dumps: the digits of a number, as str
json_dumps(obj) == [kind |-> "text", v |-> obj.v]

\* a deserialize that ignores the declared length and takes the whole body
read_whole_body(stream, content_length) == stream_read(stream, Len(stream))

\* `stream.read(content_length or 0)`
read_declared_length(stream, content_length) ==
    stream_read(stream, length_or_0(content_length))

\* `return self.loads(data)`, ValueError turned into HTTPBadRequest
loads_or_bad_request(c, hs, data, parsed) ==
    IF parsed.ok
    THEN [Outcome("", parsed.obj, hs, NoneT, {}, {c}, 1) EXCEPT !.consumed = data]
    ELSE [Outcome("HTTPBadRequest", NoneV, hs, NoneT, {}, {c}, 1)
            EXCEPT !.consumed = data]

loads_read(c, hs, data) == loads_or_bad_request(c, hs, data, json_loads(data))

\* deserialize of a codec instance (JSONHandler.deserialize)
codec_deserialize(c, hs, stream, content_type, content_length) ==
    loads_read(c, hs, read_declared_length(stream, content_length))

\* serialize of a codec instance (JSONHandler.serialize); a codec may
\* return bytes instead of str
codec_serialize(c, media, content_type) ==
    IF codec_emits_bytes(c)
    THEN [kind |-> "bytes", v |-> json_dumps(media).v]
    ELSE json_dumps(media)

----------------------------------------------------------------------------
(* The handler a method runs on is "registry" (the MediaHandlers object)   *)
(* or a codec instance.  handler_arg is the handler keyword: NoneT or a    *)
(* codec.                                                                  *)

media_type_of(me, self) ==
    IF me = "registry" THEN MediaHandlers_media_type(self) ELSE codec_media_type(me)

allowed_media_types_of(me, self) ==
    IF me = "registry" THEN self.allowed_media_types ELSE codec_allowed_media_types(me)

\* `handler or self.lookup_handler(content_type)`
handler_or_lookup(self, content_type, handler_arg) ==
    IF handler_arg # NoneT
    THEN Found(self.handlers, handler_arg)
    ELSE lookup_handler(self, content_type, NoneT)

deserialize_with(found, stream, content_type, content_length) ==
    IF found.raised # "" THEN found
    ELSE codec_deserialize(found.ret.v[1], found.handlers, stream,
                           content_type, content_length)

\* MediaHandlers.deserialize
MediaHandlers_deserialize(self, stream, content_type, content_length, handler_arg) ==
    deserialize_with(handler_or_lookup(self, content_type, handler_arg),
                     stream, content_type, content_length)

serialize_with(found, media, content_type) ==
    IF found.raised # "" THEN found
    ELSE [found EXCEPT !.ret = codec_serialize(found.ret.v[1], media, content_type)]

\* MediaHandlers.serialize
MediaHandlers_serialize(self, media, content_type, handler_arg) ==
    serialize_with(handler_or_lookup(self, content_type, handler_arg),
                   media, content_type)

deserialize_of(me, self, stream, content_type, content_length, handler_arg) ==
    IF me = "registry"
    THEN MediaHandlers_deserialize(self, stream, content_type, content_length, handler_arg)
    ELSE codec_deserialize(me, self.handlers, stream, content_type, content_length)

serialize_of(me, self, media, content_type, handler_arg) ==
    IF me = "registry"
    THEN MediaHandlers_serialize(self, media, content_type, handler_arg)
    ELSE Outcome("", codec_serialize(me, media, content_type), self.handlers,
                 NoneT, {}, {}, 0)

----------------------------------------------------------------------------
(* BaseMediaHandler.handle_request and handle_response.  req is            *)
(* [content_type, stream, content_length, default_media_type], resp is     *)
(* [content_type, data, body, default_media_type]; default_media_type is   *)
(* options.default_media_type.                                             *)

\* handle_request without the allowed_media_types check
deserialize_unchecked(me, self, req, content_type, handler_arg) ==
    deserialize_of(me, self, req.stream, content_type, req.content_length, handler_arg)

\* the allowed_media_types check of handle_request
check_and_deserialize(me, self, req, content_type, handler_arg) ==
    IF content_type \in allowed_media_types_of(me, self)
    THEN deserialize_of(me, self, req.stream, content_type,
                        req.content_length, handler_arg)
    ELSE Unsupported(self.handlers, content_type, allowed_media_types_of(me, self))

BaseMediaHandler_handle_request(me, self, req, content_type_arg, handler_arg) ==
    check_and_deserialize(me, self, req, Or(content_type_arg, req.content_type),
                          handler_arg)

\* the response slot the serialized data goes to: [out, resp]
assign_data(typed, data) ==
    IF data.raised # "" THEN [out |-> data, resp |-> typed]
    ELSE IF data.ret.kind = "bytes"
         THEN [out |-> data, resp |-> [typed EXCEPT !.data = data.ret]]
         ELSE [out |-> data, resp |-> [typed EXCEPT !.body = data.ret]]

\* serialize for the content type just set, then fill the response
serialize_into(me, self, typed, media, handler_arg) ==
    assign_data(typed, serialize_of(me, self, media, typed.content_type, handler_arg))

BaseMediaHandler_handle_response(me, self, resp, media, handler_arg) ==
    serialize_into(me, self, [resp EXCEPT !.content_type = media_type_of(me, self)],
                   media, handler_arg)

----------------------------------------------------------------------------
(* MediaHandlers.handle_request and handle_response *)

\* a call whose result is not returned: the caller gets None
without_return(out) ==
    IF out.raised # "" THEN out ELSE [out EXCEPT !.ret = NoneV]

\* the registry with the handlers a lookup left
after_lookup(self, found) == [self EXCEPT !.handlers = found.handlers]

\* a handle_request that checks the type the lookup substituted
request_with_substituted_type(self, req, content_type, found) ==
    IF found.raised # "" THEN found
    ELSE without_return(BaseMediaHandler_handle_request(
             "registry", after_lookup(self, found), req,
             substitute_default(self, content_type, req.default_media_type),
             found.ret.v[1]))

\* super().handle_request(req, content_type=content_type, handler=handler)
request_with_handler(self, req, content_type, found) ==
    IF found.raised # "" THEN found
    ELSE without_return(BaseMediaHandler_handle_request(
             "registry", after_lookup(self, found), req, content_type,
             found.ret.v[1]))

request_for_type(self, req, content_type) ==
    request_with_handler(self, req, content_type,
                         lookup_handler(self, content_type, req.default_media_type))

MediaHandlers_handle_request(self, req, content_type_arg) ==
    request_for_type(self, req, Or(content_type_arg, req.content_type))

\* handle_response that leaves the content type the base class set
keep_content_type(done, handler) ==
    IF done.out.raised # "" THEN done
    ELSE [out |-> without_return(done.out), resp |-> done.resp]

\* resp.content_type = handler.media_type
write_content_type(done, handler) ==
    IF done.out.raised # "" THEN done
    ELSE [out |-> without_return(done.out),
          resp |-> [done.resp EXCEPT !.content_type = codec_media_type(handler)]]

\* super().handle_response(resp, media=media, handler=handler) and the
\* content type written afterwards
response_with_handler(self, resp, media, found) ==
    IF found.raised # "" THEN [out |-> found, resp |-> resp]
    ELSE write_content_type(
             BaseMediaHandler_handle_response(
                 "registry", after_lookup(self, found), resp, media, found.ret.v[1]),
             found.ret.v[1])

MediaHandlers_handle_response(self, resp, media) ==
    response_with_handler(self, resp, media,
        lookup_handler(self, Or(resp.content_type, MediaHandlers_media_type(self)),
                       resp.default_media_type))

\* handle_request and handle_response of any handler
handle_request(me, self, req, content_type_arg) ==
    IF me = "registry"
    THEN MediaHandlers_handle_request(self, req, content_type_arg)
    ELSE BaseMediaHandler_handle_request(me, self, req, content_type_arg, NoneT)

handle_response(me, self, resp, media) ==
    IF me = "registry"
    THEN MediaHandlers_handle_response(self, resp, media)
    ELSE BaseMediaHandler_handle_response(me, self, resp, media, NoneT)

----------------------------------------------------------------------------
(* Inputs. *)

\* media types a caller asks for
MediaTypeArgs == {NoneT, EmptyT, AnyT, JsonT, JsonUtf8T, JsonV1T, JsonQ0T,
                  YamlT, AppAnyT, NopeT, NopeOrYamlT, GarbageT}
\* the default_media_type argument of lookup_handler
DefaultArgs == {NoneT, EmptyT, AnyT, JsonT, YamlT, JsonV1T, NopeT}
\* options.default_media_type of a request or response
OptionDefaults == {JsonT, NopeT}
\* the content_type argument of handle_request
ContentTypeArgs == {NoneT, AnyT, JsonT, JsonUtf8T, JsonV1T, YamlT, NopeT}
\* the Content-Type header of a request
RequestContentTypes == {NoneT, EmptyT, YamlT}
\* the content type a response starts with
ResponseContentTypes == {NoneT, AnyT, JsonT, JsonUtf8T, JsonV1T, YamlT, NopeT}
\* the default_media_type argument of MediaHandlers
Defaults == {JsonT, YamlT, NopeT}

RECURSIVE SeqsUpTo(_, _)
SeqsUpTo(S, n) ==
    IF n = 0 THEN {<<>>}
    ELSE SeqsUpTo(S, n - 1) \cup
         { Append(q, x) : q \in { r \in SeqsUpTo(S, n - 1) : Len(r) = n - 1 }, x \in S }

\* request bodies and declared lengths
Streams == SeqsUpTo(Bytes, MaxLen)
ContentLengths == {<<>>} \cup { <<n>> : n \in 0..MaxLen }

\* the objects a resource hands to handle_response
Media == { [kind |-> "object", v |-> <<"1">>], [kind |-> "object", v |-> <<"1", "1">>] }

\* the entries an application registers: a codec under its own type, under
\* an alias, under another type, or under the wildcard as a catch-all
HandlerEntries ==
    { [key |-> JsonT, handler |-> "json_handler"],
      [key |-> JsonT, handler |-> "json_extra"],
      [key |-> JsonUtf8T, handler |-> "json_handler"],
      [key |-> YamlT, handler |-> "yaml_handler"],
      [key |-> YamlT, handler |-> "json_extra"],
      [key |-> AnyT, handler |-> "yaml_handler"] }

\* the handlers argument: None, or a dict of at most MaxHandlers entries
\* with distinct keys
HandlerArgs ==
    {[given |-> FALSE, items |-> <<>>]} \cup
    { [given |-> TRUE, items |-> q] :
        q \in { r \in SeqsUpTo(HandlerEntries, MaxHandlers) :
                  \A i, j \in 1..Len(r) : r[i].key = r[j].key => i = j } }

\* the codec instances called on their own
StandaloneCodecs == {"json_extra", "yaml_handler"}

----------------------------------------------------------------------------
(* Serializers (graceful/serializers.py).                                  *)
(*                                                                         *)
(*   - a field instance is a record of its options: [label, source, many,  *)
(*     read_only, write_only, conv]; source is NoneT when not given, conv  *)
(*     names the field class: "identity" converts a value to itself both   *)
(*     ways (ExampleField of the tests), "upper" upper-cases a string      *)
(*     (UpperField of the tests);                                          *)
(*   - an OrderedDict is a sequence of [key, value] entries;               *)
(*   - a Python value is [kind, v]: None, a str (v its characters), a list *)
(*     of one-character strs (v its elements), or an instance ("obj", v    *)
(*     the one-element sequence of the instance's name);                   *)
(*   - an instance is a dict or a plain object, named by a string.         *)

\* a field instance
Field(label, source, many, read_only, write_only, conv) ==
    [label |-> label, source |-> source, many |-> many, read_only |-> read_only,
     write_only |-> write_only, conv |-> conv]

\* an entry of a class body: isinstance(attribute, BaseField) is is_field
Attribute(name, is_field, field) == [name |-> name, is_field |-> is_field, field |-> field]

\* OrderedDict.__setitem__: a new key goes last, a known key keeps its place
odict_set(d, k, v) ==
    IF \E i \in 1..Len(d) : d[i].key = k
    THEN [ i \in 1..Len(d) |-> IF d[i].key = k THEN [key |-> k, value |-> v] ELSE d[i] ]
    ELSE Append(d, [key |-> k, value |-> v])

\* OrderedDict(pairs)
RECURSIVE odict_from(_, _, _)
odict_from(pairs, i, d) ==
    IF i > Len(pairs) THEN d
    ELSE odict_from(pairs, i + 1, odict_set(d, pairs[i].key, pairs[i].value))

OrderedDict(pairs) == odict_from(pairs, 1, <<>>)

odict_has(d, k) == \E i \in 1..Len(d) : d[i].key = k

\* d[k] of a mapping that has k
odict_get(d, k) == d[CHOOSE i \in 1..Len(d) : d[i].key = k].value

\* the (name, attribute) pairs of the class body that are fields, in the
\* order of the body
RECURSIVE declared_fields(_, _)
declared_fields(namespace, i) ==
    IF i > Len(namespace) THEN <<>>
    ELSE IF namespace[i].is_field
         THEN <<[key |-> namespace[i].name, value |-> namespace[i].field]>>
              \o declared_fields(namespace, i + 1)
         ELSE declared_fields(namespace, i + 1)

\* namespace.pop(name) of every field: what stays in the class body
RECURSIVE popped_namespace(_, _)
popped_namespace(namespace, i) ==
    IF i > Len(namespace) THEN <<>>
    ELSE IF namespace[i].is_field
         THEN popped_namespace(namespace, i + 1)
         ELSE <<namespace[i].name>> \o popped_namespace(namespace, i + 1)

\* a base class: has_fields is hasattr(base, '_fields')
Base(has_fields, base_fields) == [has_fields |-> has_fields, fields |-> base_fields]

\* the fields of the bases put after the fields of the class body
RECURSIVE append_bases(_, _, _)
append_bases(bases, i, fields_list) ==
    IF i > Len(bases) THEN fields_list
    ELSE append_bases(bases, i + 1,
                      IF bases[i].has_fields
                      THEN fields_list \o bases[i].fields
                      ELSE fields_list)

\* `for base in reversed(bases)`: the fields of each base that has fields
\* go before what was collected so far; i counts down from Len(bases)
RECURSIVE prepend_bases(_, _, _)
prepend_bases(bases, i, fields_list) ==
    IF i = 0 THEN fields_list
    ELSE prepend_bases(bases, i - 1,
                       IF bases[i].has_fields
                       THEN bases[i].fields \o fields_list
                       ELSE fields_list)

\* a collection that lists the class body before the bases
own_fields_first(bases, namespace) ==
    OrderedDict(append_bases(bases, 1, declared_fields(namespace, 1)))

\* MetaSerializer._get_fields
MetaSerializer_get_fields(bases, namespace) ==
    OrderedDict(prepend_bases(bases, Len(bases), declared_fields(namespace, 1)))

\* MetaSerializer.__new__: the class, as its _fields and the names left in
\* its body
MetaSerializer_new(bases, namespace) ==
    [fields |-> MetaSerializer_get_fields(bases, namespace),
     namespace |-> popped_namespace(namespace, 1) \o <<"_fields">>]

----------------------------------------------------------------------------
(* Values, instances and the field conversions.                            *)

StrV(chars) == [kind |-> "str", v |-> chars]
ListV(elements) == [kind |-> "list", v |-> elements]
ObjV(name) == [kind |-> "obj", v |-> <<name>>]

\* an entry of a dict or of an instance's attributes
Item(key, value) == [key |-> key, value |-> value]

\* the instances serialized: a dict with every attribute the fields read
\* and one no field declares, a plain object with one attribute, a dict
\* that holds a str where a many field expects a list, and an empty dict
InstanceNames == {"john", "plain_object", "odd", "empty"}

\* isinstance(obj, Mapping)
is_mapping(obj) == obj # "plain_object"

\* the keys (or attributes) of an instance and their values
instance_items(obj) ==
    CASE obj = "john" ->
           << Item("name", StrV(<<"a">>)), Item("_name", StrV(<<"b">>)),
              Item("up", ListV(<<"a", "b">>)), Item("readonly", StrV(<<"a", "b">>)),
              Item("writeonly", StrV(<<"b", "a">>)), Item("gender", StrV(<<"b", "b">>)) >>
      [] obj = "plain_object" -> << Item("name", StrV(<<"b">>)) >>
      [] obj = "odd" -> << Item("up", StrV(<<"a", "b">>)), Item("name", NoneV) >>
      [] OTHER -> <<>>

\* str.upper of one character
upper_char(c) == CASE c = "a" -> "A" [] c = "b" -> "B" [] OTHER -> c

\* the outcome of a conversion: the exception raised ("" for none) and the
\* value returned
Converted(raised, value) == [raised |-> raised, value |-> value]

\* UpperField: value.upper(); only a str has upper
upper_conversion(value) ==
    IF value.kind = "str"
    THEN Converted("", StrV([ i \in 1..Len(value.v) |-> upper_char(value.v[i]) ]))
    ELSE Converted("AttributeError", NoneV)

\* field.to_representation(value)
field_to_representation(field, value) ==
    IF field.conv = "upper" THEN upper_conversion(value) ELSE Converted("", value)

\* field.from_representation(data)
field_from_representation(field, data) ==
    IF field.conv = "upper" THEN upper_conversion(data) ELSE Converted("", data)

\* field.validate(value) of a field without validators: the value passes
field_validate(field, value) == Converted("", value)

\* the elements a for loop over a value yields: the elements of a list, the
\* characters of a str
iterate(value) == [ i \in 1..Len(value.v) |-> StrV(<<value.v[i]>>) ]

\* a list of one-character strs, from its elements
list_of(elements) == ListV([ i \in 1..Len(elements) |-> elements[i].v[1] ])

----------------------------------------------------------------------------
(* BaseSerializer.  self is the _fields of the serializer's class; a       *)
(* representation and the dict from_representation returns are sequences   *)
(* of [key, value] entries in insertion order.                             *)

\* the outcome of a serializer method: the exception raised ("" for none)
\* and the dict returned
Result(raised, ret) == [raised |-> raised, ret |-> ret]

\* dict.get(attr, None) and getattr(obj, attr, None)
attribute_or_none(items, attr) ==
    IF odict_has(items, attr) THEN odict_get(items, attr) ELSE NoneV

\* a get_attribute that reads '*' like any other name
get_attribute_literal(obj, attr) == attribute_or_none(instance_items(obj), attr)

\* BaseSerializer.get_attribute
get_attribute(obj, attr) ==
    IF attr = "*" THEN ObjV(obj)
    ELSE IF is_mapping(obj)
         THEN attribute_or_none(instance_items(obj), attr)   \* obj.get(attr, None)
         ELSE attribute_or_none(instance_items(obj), attr)   \* getattr(obj, attr, None)

\* BaseSerializer.set_attribute: the items of the instance afterwards,
\* `obj[attr] = value` for a mapping and setattr(obj, attr, value) otherwise
set_attribute(obj, attr, value) ==
    IF is_mapping(obj)
    THEN odict_set(instance_items(obj), attr, value)
    ELSE odict_set(instance_items(obj), attr, value)

\* `[field.to_representation(item) for item in attribute]`
RECURSIVE represent_each(_, _, _, _)
represent_each(field, items, i, done) ==
    IF i > Len(items) THEN Converted("", list_of(done))
    ELSE IF field_to_representation(field, items[i]).raised # ""
         THEN field_to_representation(field, items[i])
         ELSE represent_each(field, items, i + 1,
                             Append(done, field_to_representation(field, items[i]).value))

\* the value to_representation stores for one field
represent_attribute(field, attribute) ==
    IF attribute = NoneV
    THEN Converted("", IF field.many THEN ListV(<<>>) ELSE NoneV)
    ELSE IF field.many
         THEN represent_each(field, iterate(attribute), 1, <<>>)
         ELSE field_to_representation(field, attribute)

\* a to_representation that reads every field under its name
represent_field_by_name(name, field, obj) ==
    represent_attribute(field, get_attribute(obj, name))

\* the value to_representation stores for the field called name
represent_field(name, field, obj) ==
    represent_attribute(field, get_attribute(obj, Or(field.source, name)))

\* the loop of to_representation from field i on
RECURSIVE represent_from(_, _, _, _)
represent_from(self, obj, i, representation) ==
    IF i > Len(self) THEN Result("", representation)
    ELSE IF represent_field(self[i].key, self[i].value, obj).raised # ""
         THEN Result(represent_field(self[i].key, self[i].value, obj).raised, <<>>)
         ELSE represent_from(self, obj, i + 1,
                  odict_set(representation, self[i].key,
                            represent_field(self[i].key, self[i].value, obj).value))

\* BaseSerializer.to_representation
to_representation(self, obj) == represent_from(self, obj, 1, <<>>)

\* `field.validate(field.from_representation(data))`
validated(field, converted) ==
    IF converted.raised # "" THEN converted ELSE field_validate(field, converted.value)

\* `representation[name]`, converted and validated
internal_value(name, field, representation) ==
    IF odict_has(representation, name)
    THEN validated(field, field_from_representation(field, odict_get(representation, name)))
    ELSE Converted("KeyError", NoneV)

\* a filter that takes every field, whatever partial is
takes_every_field(name, representation, partial) == TRUE

\* `if not partial or name in representation`
takes_field(name, representation, partial) ==
    ~partial \/ odict_has(representation, name)

\* the dict comprehension of from_representation from field i on
RECURSIVE internal_from(_, _, _, _, _)
internal_from(self, representation, partial, i, object_dict) ==
    IF i > Len(self) THEN Result("", object_dict)
    ELSE IF ~takes_field(self[i].key, representation, partial)
         THEN internal_from(self, representation, partial, i + 1, object_dict)
         ELSE IF internal_value(self[i].key, self[i].value, representation).raised # ""
              THEN Result(internal_value(self[i].key, self[i].value, representation).raised,
                          <<>>)
              ELSE internal_from(self, representation, partial, i + 1,
                       odict_set(object_dict, Or(self[i].value.source, self[i].key),
                                 internal_value(self[i].key, self[i].value,
                                                representation).value))

\* BaseSerializer.from_representation
from_representation(self, representation, partial) ==
    internal_from(self, representation, partial, 1, <<>>)

----------------------------------------------------------------------------
(* Serializers: inputs. *)

\* the entries of a class body.  A field is Field(label, source, many,
\* read_only, write_only, conv): a plain field, a field read from _name, a
\* field that takes the whole instance, an upper-casing many field, a many
\* field, a read-only and a write-only field; some share a name.  The last
\* entry is a method.
BodyEntries ==
    { Attribute("name", TRUE, Field("plain", NoneT, FALSE, FALSE, FALSE, "identity")),
      Attribute("name", TRUE, Field("sourced", "_name", FALSE, FALSE, FALSE, "identity")),
      Attribute("name", TRUE, Field("star", "*", FALSE, FALSE, FALSE, "identity")),
      Attribute("up", TRUE, Field("upper", NoneT, TRUE, FALSE, FALSE, "upper")),
      Attribute("up", TRUE, Field("many", NoneT, TRUE, FALSE, FALSE, "identity")),
      Attribute("readonly", TRUE, Field("readonly", NoneT, FALSE, TRUE, FALSE, "identity")),
      Attribute("writeonly", TRUE, Field("writeonly", NoneT, FALSE, FALSE, TRUE, "identity")),
      Attribute("helper", FALSE, Field("", NoneT, FALSE, FALSE, FALSE, "none")) }

\* class bodies: at most MaxFields entries with distinct names
Namespaces ==
    { r \in SeqsUpTo(BodyEntries, MaxFields) :
        \A i, j \in 1..Len(r) : r[i].name = r[j].name => i = j }

\* the bases of a new class: none, the class defined last, and that class
\* after a class that is no serializer, or before or after other, a
\* serializer class of the fields up and name
BaseLists(cls) ==
    LET other ==
          Base(TRUE, MetaSerializer_get_fields(<<>>,
             << Attribute("up", TRUE, Field("many", NoneT, TRUE, FALSE, FALSE, "identity")),
                Attribute("name", TRUE,
                          Field("plain", NoneT, FALSE, FALSE, FALSE, "identity")) >>))
    IN  { <<>>, <<Base(TRUE, cls)>>, <<Base(FALSE, <<>>), Base(TRUE, cls)>>,
          <<Base(TRUE, cls), other>>, <<other, Base(TRUE, cls)>> }

\* the representations a client sends
Representations ==
    { <<>>,
      << Item("name", StrV(<<"a">>)) >>,
      << Item("name", StrV(<<"a">>)), Item("up", ListV(<<"a", "b">>)) >>,
      << Item("up", StrV(<<"a", "b">>)) >>,
      << Item("readonly", StrV(<<"a">>)) >>,
      << Item("writeonly", StrV(<<"a">>)), Item("readonly", StrV(<<"b">>)) >>,
      << Item("writeonly", StrV(<<"a">>)) >>,
      << Item("name", StrV(<<"a", "b">>)), Item("bogus", StrV(<<"b">>)) >> }

\* the names get_attribute and set_attribute are called with
AttributeNames == {"name", "up", "*", "missing"}

----------------------------------------------------------------------------
(* Serializers: state machine.  fields is the _fields of the serializer    *)
(* class defined last, whose instance the methods are called on; ser is    *)
(* the last call, its inputs and its outcome.                              *)

SerCall(op, bases, namespace, obj, representation, partial, attr, value, fed, raised, ret, got) ==
    [op |-> op, bases |-> bases, namespace |-> namespace, obj |-> obj,
     representation |-> representation, partial |-> partial, attr |-> attr,
     value |-> value, fed |-> fed, raised |-> raised, ret |-> ret, got |-> got]

\* no call is in progress
SerIdle == SerCall("none", <<>>, <<>>, "", <<>>, FALSE, "", NoneV, FALSE, "", <<>>, NoneV)

----------------------------------------------------------------------------
(* State machine. *)

NoReq == [content_type |-> NoneT, stream |-> <<>>, content_length |-> <<>>,
          default_media_type |-> NoneT]

\* a new falcon.Response
FreshResp(content_type, default) ==
    [content_type |-> content_type, data |-> NoneV, body |-> NoneV,
     default_media_type |-> default]

NoOutcome == Outcome("", NoneV, <<>>, NoneT, {}, {}, 0)

\* no call is in progress: the caller is between two calls
Idle == [op |-> "none", me |-> "registry", media_type |-> NoneT, default |-> NoneT,
         req |-> NoReq, media |-> NoneV, before |-> <<>>, out |-> NoOutcome]

Call(op, me, media_type, default, req, media, before, out) ==
    [op |-> op, me |-> me, media_type |-> media_type, default |-> default,
     req |-> req, media |-> media, before |-> before, out |-> out]

\* the registry object
Self == [handlers |-> handlers, default_media_type |-> default_media_type,
         allowed_media_types |-> allowed_media_types]


(* Concurrent lookups: threads that call lookup_handler on one registry.   *)
(* A thread is [pc, args, media_type, handler, snapshot, m, before, out]:  *)
(* where it stands in lookup_handler, its arguments, its local variables   *)
(* media_type and handler, the dict best_match iterates as it was when     *)
(* the iteration began, what best_match returned, the handlers mapping     *)
(* when the calls started, and the call's outcome.                         *)

Threads == {"t1", "t2"}

\* the arguments of the concurrent calls
ConcurrentLookups ==
    { [media_type |-> m, default |-> d] :
        m \in {AnyT, JsonT, JsonV1T, NopeT}, d \in {NoneT, YamlT} }

Thread(pc, args, media_type, handler, snapshot, m, before, out) ==
    [pc |-> pc, args |-> args, media_type |-> media_type, handler |-> handler,
     snapshot |-> snapshot, m |-> m, before |-> before, out |-> out]

\* a thread that is not in lookup_handler
IdleThread ==
    Thread("idle", [media_type |-> NoneT, default |-> NoneT], NoneT, NoneT, <<>>,
           [raised |-> FALSE, resolved |-> EmptyT], <<>>, NoOutcome)


Init ==
    /\ constructed = "none"
    /\ default_media_type = NoneT
    /\ handlers = <<>>
    /\ allowed_media_types = {}
    /\ supplied = [given |-> FALSE, items |-> <<>>]
    /\ call = Idle
    /\ response = FreshResp(NoneT, NoneT)
    /\ fields = <<>>
    /\ ser = SerIdle
    /\ threads = [ t \in Threads |-> IdleThread ]

\* MediaHandlers(default_media_type=default, handlers=arg)
Construct ==
    /\ constructed = "none"
    /\ call = Idle
    /\ \E default \in Defaults, arg \in HandlerArgs, rev \in BOOLEAN :
         LET made == MediaHandlers_init(default, arg, rev)
         IN  /\ constructed' = IF made.raised THEN "ValueError" ELSE "ok"
             /\ default_media_type' = made.default_media_type
             /\ handlers' = made.handlers
             /\ allowed_media_types' = IF made.raised THEN {} ELSE made.allowed_media_types
             /\ supplied' = arg
             /\ call' = Call("init", "registry", NoneT, default, NoReq, NoneV, <<>>,
                             Outcome(IF made.raised THEN "ValueError" ELSE "",
                                     NoneV, made.handlers, NoneT, {}, {}, 0))
             /\ UNCHANGED <<response, fields, ser, threads>>

\* registry.lookup_handler(media_type, default)
LookupHandler ==
    /\ constructed = "ok"
    /\ call = Idle
    /\ \E media_type \in MediaTypeArgs, default \in DefaultArgs :
         LET out == lookup_handler(Self, media_type, default)
         IN  /\ handlers' = out.handlers
             /\ call' = Call("lookup_handler", "registry", media_type, default,
                             NoReq, NoneV, handlers, out)
             /\ UNCHANGED <<constructed, default_media_type, allowed_media_types,
                            supplied, response, fields, ser, threads>>

\* me.handle_request(req, content_type=content_type), me the registry or a codec
HandleRequest ==
    \E me \in {"registry"} \cup StandaloneCodecs :
      /\ call = Idle
      /\ me = "registry" => constructed = "ok"
      /\ \E content_type \in ContentTypeArgs, req_type \in RequestContentTypes,
            default \in IF me = "registry" THEN OptionDefaults ELSE {JsonT},
            stream \in Streams,
            content_length \in ContentLengths :
           LET req == [content_type |-> req_type, stream |-> stream,
                       content_length |-> content_length,
                       default_media_type |-> default]
               out == handle_request(me, Self, req, content_type)
           IN  /\ handlers' = out.handlers
               /\ call' = Call("handle_request", me, content_type, default, req,
                               NoneV, handlers, out)
               /\ UNCHANGED <<constructed, default_media_type, allowed_media_types,
                              supplied, response, fields, ser, threads>>

\* me.handle_response(resp, media=media) on a new response
HandleResponse ==
    \E me \in {"registry"} \cup StandaloneCodecs :
      /\ call = Idle
      /\ me = "registry" => constructed = "ok"
      /\ \E content_type \in ResponseContentTypes,
            default \in IF me = "registry" THEN OptionDefaults ELSE {JsonT},
            media \in Media :
           LET done == handle_response(me, Self, FreshResp(content_type, default), media)
           IN  /\ handlers' = done.out.handlers
               /\ response' = done.resp
               /\ call' = Call("handle_response", me, content_type, default, NoReq,
                               media, handlers, done.out)
               /\ UNCHANGED <<constructed, default_media_type, allowed_media_types,
                              supplied, fields, ser, threads>>

\* registry.deserialize(stream, content_type, content_length, handler=handler)
Deserialize ==
    /\ constructed = "ok"
    /\ call = Idle
    /\ \E content_type \in ContentTypeArgs, stream \in Streams,
          content_length \in ContentLengths, handler \in {NoneT, "yaml_handler"} :
         LET out == MediaHandlers_deserialize(Self, stream, content_type,
                                              content_length, handler)
         IN  /\ handlers' = out.handlers
             /\ call' = Call("deserialize", "registry", content_type, NoneT,
                             [NoReq EXCEPT !.stream = stream,
                                           !.content_length = content_length],
                             NoneV, handlers, out)
             /\ UNCHANGED <<constructed, default_media_type, allowed_media_types,
                            supplied, response, fields, ser, threads>>

\* registry.serialize(media, content_type, handler=handler)
Serialize ==
    /\ constructed = "ok"
    /\ call = Idle
    /\ \E content_type \in ResponseContentTypes, media \in Media,
          handler \in {NoneT, "yaml_handler"} :
         LET out == MediaHandlers_serialize(Self, media, content_type, handler)
         IN  /\ handlers' = out.handlers
             /\ call' = Call("serialize", "registry", content_type, NoneT, NoReq,
                             media, handlers, out)
             /\ UNCHANGED <<constructed, default_media_type, allowed_media_types,
                            supplied, response, fields, ser, threads>>

\* the caller takes the outcome of the call and goes on
Return ==
    /\ call # Idle
    /\ call' = Idle
    /\ response' = FreshResp(NoneT, NoneT)
    /\ UNCHANGED <<constructed, default_media_type, handlers, allowed_media_types,
                   supplied, fields, ser, threads>>

Next ==
    \/ Construct \/ LookupHandler \/ HandleRequest \/ HandleResponse
    \/ Deserialize \/ Serialize \/ Return

Spec == Init /\ [][Next]_vars

----------------------------------------------------------------------------
(* Serializers: actions. *)

\* class X(*bases): <namespace>
DefineSerializer ==
    /\ ser = SerIdle
    /\ \E bases \in BaseLists(fields), namespace \in Namespaces :
         /\ fields' = MetaSerializer_new(bases, namespace).fields
         /\ ser' = SerCall("define", bases, namespace, "", <<>>, FALSE, "", NoneV, FALSE,
                           "", MetaSerializer_new(bases, namespace).namespace, NoneV)
    /\ UNCHANGED <<constructed, default_media_type, handlers, allowed_media_types,
                   supplied, call, response, threads>>

\* serializer.to_representation(obj)
ToRepresentation ==
    /\ ser = SerIdle
    /\ \E obj \in InstanceNames :
         ser' = SerCall("to_representation", <<>>, <<>>, obj, <<>>, FALSE, "", NoneV,
                        FALSE, to_representation(fields, obj).raised,
                        to_representation(fields, obj).ret, NoneV)
    /\ UNCHANGED <<constructed, default_media_type, handlers, allowed_media_types,
                   supplied, call, response, threads, fields>>

\* serializer.from_representation(representation, partial=partial), on a
\* representation a client sent or on the one to_representation just
\* returned
FromRepresentation ==
    /\ \E partial \in BOOLEAN :
         \/ /\ ser = SerIdle
            /\ \E representation \in Representations :
                 ser' = SerCall("from_representation", <<>>, <<>>, "", representation,
                                partial, "", NoneV, FALSE,
                                from_representation(fields, representation, partial).raised,
                                from_representation(fields, representation, partial).ret,
                                NoneV)
         \/ /\ ser.op = "to_representation"
            /\ ser.raised = ""
            /\ ser' = SerCall("from_representation", <<>>, <<>>, ser.obj, ser.ret,
                              partial, "", NoneV, TRUE,
                              from_representation(fields, ser.ret, partial).raised,
                              from_representation(fields, ser.ret, partial).ret, NoneV)
    /\ UNCHANGED <<constructed, default_media_type, handlers, allowed_media_types,
                   supplied, call, response, threads, fields>>

\* serializer.get_attribute(obj, attr)
GetAttribute ==
    /\ ser = SerIdle
    /\ \E obj \in InstanceNames, attr \in AttributeNames :
         ser' = SerCall("get_attribute", <<>>, <<>>, obj, <<>>, FALSE, attr, NoneV,
                        FALSE, "", <<>>, get_attribute(obj, attr))
    /\ UNCHANGED <<constructed, default_media_type, handlers, allowed_media_types,
                   supplied, call, response, threads, fields>>

\* serializer.set_attribute(obj, attr, value); ret is the instance afterwards
SetAttribute ==
    /\ ser = SerIdle
    /\ \E obj \in InstanceNames, attr \in AttributeNames, value \in {NoneV, StrV(<<"a">>)} :
         ser' = SerCall("set_attribute", <<>>, <<>>, obj, <<>>, FALSE, attr, value,
                        FALSE, "", set_attribute(obj, attr, value), NoneV)
    /\ UNCHANGED <<constructed, default_media_type, handlers, allowed_media_types,
                   supplied, call, response, threads, fields>>

\* the caller takes the outcome of the call and goes on
SerReturn ==
    /\ ser # SerIdle
    /\ ser' = SerIdle
    /\ UNCHANGED <<constructed, default_media_type, handlers, allowed_media_types,
                   supplied, call, response, threads, fields>>

SerNext ==
    DefineSerializer \/ ToRepresentation \/ FromRepresentation \/ GetAttribute
       \/ SetAttribute \/ SerReturn

SerSpec == Init /\ [][SerNext]_vars

----------------------------------------------------------------------------
(* Concurrent lookups: the steps of lookup_handler.  Each step reads or    *)
(* writes the shared registry once; the interpreter may switch threads     *)
(* between any two steps.                                                  *)

\* every thread calls lookup_handler
StartCalls ==
    /\ constructed = "ok"
    /\ call = Idle
    /\ \A t \in Threads : threads[t].pc = "idle"
    /\ \E args \in [Threads -> ConcurrentLookups] :
         threads' = [ t \in Threads |->
                        Thread("get", args[t], args[t].media_type, NoneT, <<>>,
                               IdleThread.m, handlers, NoOutcome) ]
    /\ UNCHANGED <<constructed, default_media_type, handlers, allowed_media_types,
                   supplied, call, response, fields, ser>>

\* the default substitution and `handler = self.handlers.get(media_type, None)`
get_substituted(th, hs, media_type) ==
    [th EXCEPT !.media_type = media_type, !.handler = dict_get(hs, media_type),
               !.pc = IF dict_get(hs, media_type) # NoneT THEN "return" ELSE "match"]

T_Get(t) ==
    /\ threads[t].pc = "get"
    /\ threads' = [threads EXCEPT ![t] =
                     get_substituted(threads[t], handlers,
                         substitute_default(Self, threads[t].args.media_type,
                                            threads[t].args.default))]
    /\ UNCHANGED <<constructed, default_media_type, handlers, allowed_media_types,
                   supplied, call, response, fields, ser>>

\* best_match starts to iterate self.handlers
T_MatchBegin(t) ==
    /\ threads[t].pc = "match"
    /\ threads' = [threads EXCEPT ![t].snapshot = handlers, ![t].pc = "matching"]
    /\ UNCHANGED <<constructed, default_media_type, handlers, allowed_media_types,
                   supplied, call, response, fields, ser>>

\* what the iteration ends in: the match over the keys it saw, or, when
\* another thread added a key meanwhile, RuntimeError (dictionary changed
\* size during iteration), which lookup_handler does not catch
match_outcomes(th, hs) ==
    { [th EXCEPT !.m = best_match(dict_list(th.snapshot), th.media_type),
                 !.pc = "index"] }
    \cup (IF dict_keys(hs) # dict_keys(th.snapshot)
          THEN { [th EXCEPT !.out = Outcome("RuntimeError", NoneV, hs, NoneT, {}, {}, 0),
                            !.pc = "done"] }
          ELSE {})

\* best_match returns or raises
T_MatchEnd(t) ==
    /\ threads[t].pc = "matching"
    /\ \E th \in match_outcomes(threads[t], handlers) :
         threads' = [threads EXCEPT ![t] = th]
    /\ UNCHANGED <<constructed, default_media_type, handlers, allowed_media_types,
                   supplied, call, response, fields, ser>>

\* `assert not resolved; handler = self.handlers[resolved]` and the except
\* branch
indexed(th, self, resolved) ==
    IF resolved.ok
    THEN [th EXCEPT !.handler = dict_get(self.handlers, resolved.key), !.pc = "write"]
    ELSE [th EXCEPT !.out = Unsupported(self.handlers, th.media_type,
                                        self.allowed_media_types),
                    !.pc = "done"]

T_Index(t) ==
    /\ threads[t].pc = "index"
    /\ threads' = [threads EXCEPT ![t] =
                     indexed(threads[t], Self, assert_and_index(Self, threads[t].m))]
    /\ UNCHANGED <<constructed, default_media_type, handlers, allowed_media_types,
                   supplied, call, response, fields, ser>>

\* the mapping after the else branch `self.handlers[media_type] = handler`,
\* which only a lookup that resolved a pattern goes through
cache_written(th, hs) ==
    IF th.pc = "write" THEN dict_set(hs, th.media_type, th.handler) ELSE hs

\* the else branch and `return handler`
T_Return(t) ==
    /\ threads[t].pc \in {"return", "write"}
    /\ handlers' = cache_written(threads[t], handlers)
    /\ threads' = [threads EXCEPT ![t].out = Found(cache_written(threads[t], handlers),
                                                   threads[t].handler),
                                  ![t].pc = "done"]
    /\ UNCHANGED <<constructed, default_media_type, allowed_media_types,
                   supplied, call, response, fields, ser>>

\* every call has ended and the callers go on
JoinCalls ==
    /\ \A t \in Threads : threads[t].pc = "done"
    /\ threads' = [ t \in Threads |-> IdleThread ]
    /\ UNCHANGED <<constructed, default_media_type, handlers, allowed_media_types,
                   supplied, call, response, fields, ser>>

ConcNext ==
    \/ Construct
    \/ Return
    \/ StartCalls
    \/ \E t \in Threads :
          T_Get(t) \/ T_MatchBegin(t) \/ T_MatchEnd(t) \/ T_Index(t) \/ T_Return(t)
    \/ JoinCalls

ConcSpec == Init /\ [][ConcNext]_vars

----------------------------------------------------------------------------
(* Vocabulary of the properties. *)

IsLookup == call.op = "lookup_handler"
IsRequest == call.op = "handle_request"
IsResponse == call.op = "handle_response"
Returned == call.out.raised = ""
RaisedUnsupported == call.out.raised = "HTTPUnsupportedMediaType"

\* the registry as the last call found it
SelfBefore == [handlers |-> call.before, default_media_type |-> default_media_type,
               allowed_media_types |-> allowed_media_types]

\* the media type a lookup resolves after the default substitution, stated
\* from the documentation of lookup_handler
Substituted(media_type, default_arg) ==
    IF media_type \in {NoneT, EmptyT, AnyT}
    THEN IF default_arg \in {NoneT, EmptyT} THEN default_media_type ELSE default_arg
    ELSE media_type

\* the key the MIME pattern match selects among the registered keys, ''
\* when it selects none
PatternKey(media_type) ==
    LET m == best_match(dict_list(call.before), media_type)
    IN  IF m.raised THEN EmptyT ELSE m.resolved

----------------------------------------------------------------------------
(* C1: constructing a MediaHandlers registry raises ValueError exactly     *)
(* when default_media_type is not a key of the resolved handler mapping    *)
(* (the supplied handlers plus the allowed media types of each supplied    *)
(* codec, or the built-in JSON mapping when none is supplied); otherwise   *)
(* construction succeeds and the default is a key of the mapping.          *)

C1_ResolvedKeys ==
    IF ~supplied.given \/ supplied.items = <<>>
    THEN {JsonT, JsonUtf8T}
    ELSE dict_keys(supplied.items) \cup
         UNION { codec_allowed_media_types(supplied.items[i].handler) :
                   i \in 1..Len(supplied.items) }

C1_ConstructionFailsIffDefaultUnregistered ==
    constructed # "none" =>
        /\ constructed = "ValueError" <=> default_media_type \notin C1_ResolvedKeys
        /\ constructed = "ok" => default_media_type \in dict_keys(handlers)
        /\ (constructed = "ok" /\ call.op = "init") =>
              dict_keys(handlers) = C1_ResolvedKeys

\* a mapping was supplied, an alias was added to it, and the default is
\* still not among its keys
C1_Witness ==
    /\ constructed = "ValueError"
    /\ supplied.given
    /\ dict_keys(supplied.items) # C1_ResolvedKeys
    /\ call.op = "init" /\ call.out.raised = "ValueError"

----------------------------------------------------------------------------
(* C2: lookup_handler(media_type, default_media_type) with media_type      *)
(* empty, None or '*/*' substitutes default_media_type when one is given   *)
(* and the registry's own default otherwise, then resolves as if the       *)
(* substituted type had been requested: it returns the codec registered    *)
(* under that type, and a supplied default that is not registered fails    *)
(* with unsupported-media-type rather than falling back to the registry's  *)
(* own default.                                                            *)

C2_BlankLookupUsesDefault ==
    (IsLookup /\ call.media_type \in {NoneT, EmptyT, AnyT}) =>
        LET s == Substituted(call.media_type, call.default)
        IN  /\ s \in dict_keys(call.before) =>
                 /\ Returned
                 /\ call.out.ret = CodecV(dict_get(call.before, s))
            /\ s \notin dict_keys(call.before) => RaisedUnsupported
            /\ s \notin {NoneT, EmptyT, AnyT} =>
                 call.out = lookup_handler(SelfBefore, s, NoneT)

\* a wildcard lookup answered by the codec of a supplied default that is
\* not the registry's own default
C2_Witness ==
    /\ IsLookup /\ call.media_type = AnyT
    /\ call.default \notin {NoneT, EmptyT, default_media_type}
    /\ Returned
    /\ call.out.ret = CodecV(dict_get(handlers, call.default))
    /\ call.out.ret # CodecV(dict_get(handlers, default_media_type))

----------------------------------------------------------------------------
(* C3: lookup_handler for a media type that has neither an exact key nor   *)
(* a pattern match among the registered keys raises the unsupported-media- *)
(* type error; the message names the rejected type and lists every media   *)
(* type the registry allows; no codec is returned.                         *)

C3_UnmatchedTypeIsUnsupported ==
    LET s == Substituted(call.media_type, call.default)
    IN  (IsLookup /\ s \notin dict_keys(call.before) /\ PatternKey(s) = EmptyT) =>
            /\ RaisedUnsupported
            /\ call.out.ret = NoneV
            /\ call.out.msg_type = s
            /\ call.out.msg_allowed = allowed_media_types
            /\ dict_keys(handlers) \subseteq call.out.msg_allowed

C3_Witness ==
    /\ IsLookup /\ call.media_type = NopeT
    /\ PatternKey(NopeT) = EmptyT
    /\ RaisedUnsupported
    /\ call.out.msg_type = NopeT

----------------------------------------------------------------------------
(* C4: when the requested media type is not an exact key of the registry   *)
(* but the MIME pattern match selects one of the registered keys,          *)
(* lookup_handler returns the codec registered under the selected key      *)
(* instead of failing with unsupported-media-type.                         *)

C4_PatternMatchReturnsCodec ==
    LET s == Substituted(call.media_type, call.default)
    IN  (IsLookup /\ s \notin dict_keys(call.before) /\ PatternKey(s) # EmptyT) =>
            /\ Returned
            /\ call.out.ret = CodecV(dict_get(call.before, PatternKey(s)))

----------------------------------------------------------------------------
(* C5: after a lookup_handler call resolved through pattern matching, the  *)
(* registry maps the literal requested media type to the resolved codec,   *)
(* so a second lookup of the same string is answered by the exact-match    *)
(* step with the same codec.                                               *)

C5_PatternMatchIsCached ==
    LET s == Substituted(call.media_type, call.default)
    IN  (IsLookup /\ s \notin dict_keys(call.before) /\ PatternKey(s) # EmptyT) =>
            /\ s \in dict_keys(handlers)
            /\ dict_get(handlers, s) = dict_get(call.before, PatternKey(s))
            /\ lookup_handler(Self, s, NoneT).ret
                 = CodecV(dict_get(call.before, PatternKey(s)))

----------------------------------------------------------------------------
(* C6: on construction with an explicit handlers mapping, every media type *)
(* in the allowed_media_types of each supplied codec becomes a key of the  *)
(* registry bound to that codec, except that a media type registered       *)
(* explicitly keeps its explicitly supplied codec.                         *)

C6_Explicit == dict_keys(supplied.items)

\* the original statement: an alias is bound to every codec declaring it
C6_AliasBoundToEachDeclaringCodec ==
    (constructed = "ok" /\ call.op = "init" /\ supplied.given) =>
        /\ \A k \in C6_Explicit : dict_get(handlers, k) = dict_get(supplied.items, k)
        /\ \A i \in 1..Len(supplied.items) :
             \A t \in codec_allowed_media_types(supplied.items[i].handler) :
                /\ t \in dict_keys(handlers)
                /\ t \notin C6_Explicit =>
                     dict_get(handlers, t) = supplied.items[i].handler

\* amended: an alias declared by several supplied codecs is bound to the
\* last of them in mapping order
C6_AliasBoundToLastDeclaringCodec ==
    (constructed = "ok" /\ call.op = "init" /\ supplied.given) =>
        /\ \A k \in C6_Explicit : dict_get(handlers, k) = dict_get(supplied.items, k)
        /\ \A i \in 1..Len(supplied.items) :
             \A t \in codec_allowed_media_types(supplied.items[i].handler) :
                /\ t \in dict_keys(handlers)
                /\ ( /\ t \notin C6_Explicit
                     /\ \A j \in (i + 1)..Len(supplied.items) :
                          t \notin codec_allowed_media_types(supplied.items[j].handler) )
                   => dict_get(handlers, t) = supplied.items[i].handler

\* a supplied codec declares a type another entry registers explicitly,
\* and contributes an alias of its own
C6_Witness ==
    /\ constructed = "ok" /\ call.op = "init" /\ supplied.given
    /\ \E i, j \in 1..Len(supplied.items) :
         /\ i # j
         /\ supplied.items[j].key \in codec_allowed_media_types(supplied.items[i].handler)
         /\ supplied.items[j].handler # supplied.items[i].handler
         /\ dict_get(handlers, supplied.items[j].key) = supplied.items[j].handler
         /\ \E t \in codec_allowed_media_types(supplied.items[i].handler) :
              t \notin C6_Explicit /\ dict_get(handlers, t) = supplied.items[i].handler

----------------------------------------------------------------------------
(* C7: for every media handler, the registry included,                     *)
(* handle_request(req, content_type=t) with t among the handler's allowed  *)
(* media types returns the object obtained by deserializing the request    *)
(* body with the codec responsible for t.                                  *)

\* the codec responsible for a type: the handler itself, or the codec the
\* registry holds under the type
C7_Responsible(t) ==
    IF call.me = "registry" THEN dict_get(call.before, t) ELSE call.me

C7_RequestReturnsDeserializedObject ==
    (IsRequest /\ call.media_type \in allowed_media_types_of(call.me, SelfBefore)) =>
        LET expected == codec_deserialize(C7_Responsible(call.media_type), call.before,
                                          call.req.stream, call.media_type,
                                          call.req.content_length)
        IN  /\ call.out.raised = expected.raised
            /\ call.out.ret = expected.ret

----------------------------------------------------------------------------
(* C8: handle_request with an effective content type (the explicit         *)
(* argument, else the request's declared type) that is not in the          *)
(* handler's allowed_media_types fails with the unsupported-media-type     *)
(* error whose message lists the allowed set; deserialize is not invoked   *)
(* and the request stream is not read.                                     *)

C8_Effective == Or(call.media_type, call.req.content_type)

C8_DisallowedTypeIsRejectedUnread ==
    (IsRequest /\ C8_Effective \notin allowed_media_types_of(call.me, SelfBefore)) =>
        /\ RaisedUnsupported
        /\ call.out.msg_allowed = allowed_media_types_of(call.me, SelfBefore)
        /\ call.out.deserialized = {}
        /\ call.out.reads = 0

\* the registry resolves the default codec for a wildcard content type and
\* still rejects the request
C8_Witness ==
    /\ IsRequest /\ call.me = "registry"
    /\ C8_Effective = AnyT
    /\ call.default \in dict_keys(handlers)
    /\ call.req.stream # <<>>
    /\ RaisedUnsupported
    /\ call.out.msg_type = AnyT

----------------------------------------------------------------------------
(* C9: for every media handler, the registry included,                     *)
(* handle_response(resp, media=m) returns the serialized data and writes   *)
(* that same data into exactly one response slot: bytes go to resp.data,   *)
(* text goes to resp.body, the other slot stays unset.                     *)

C9_ResponseReturnsWrittenData ==
    (IsResponse /\ Returned) =>
        /\ call.out.ret.kind \in {"bytes", "text"}
        /\ call.out.ret.v = call.media.v
        /\ call.out.ret.kind = "bytes" =>
             response.data = call.out.ret /\ response.body = NoneV
        /\ call.out.ret.kind = "text" =>
             response.body = call.out.ret /\ response.data = NoneV

----------------------------------------------------------------------------
(* C10: after MediaHandlers.handle_response completes, the response's      *)
(* content type is the canonical media_type of the codec that was resolved *)
(* for, and that serialized, the response, whatever content type the       *)
(* response started with; it is never left empty or a wildcard.            *)

\* the codec the registry resolves for a response
C10_Resolved ==
    dict_get(call.before,
             Substituted(Or(call.media_type, default_media_type), call.default))

C10_ContentTypeIsResolvedCodecs ==
    (IsResponse /\ call.me = "registry" /\ Returned) =>
        /\ C10_Resolved # NoneT
        /\ response.content_type = codec_media_type(C10_Resolved)
        /\ response.content_type \notin {NoneT, EmptyT, AnyT, AppAnyT}
        /\ LET data == codec_serialize(C10_Resolved, call.media, default_media_type)
           IN  IF data.kind = "bytes" THEN response.data = data
                                      ELSE response.body = data

\* a response that starts as a registered type other than the default
C10_Witness ==
    /\ IsResponse /\ call.me = "registry" /\ Returned
    /\ call.media_type \notin {NoneT, AnyT, default_media_type}
    /\ response.content_type # default_media_type
    /\ response.content_type = codec_media_type(dict_get(handlers, call.media_type))

----------------------------------------------------------------------------
(* C11: the JSON codec's deserialize reads at most content_length bytes    *)
(* from the stream when content_length is a positive number, and reads all *)
(* available bytes when content_length is None or zero, then parses what   *)
(* it read.                                                                *)

\* the last call ran a codec's deserialize
C11_Deserialized == IsRequest /\ call.out.deserialized # {}

\* a body is a JSON document
C11_IsJson(data) == data # <<>> /\ \A i \in 1..Len(data) : data[i] = "1"

\* what was read starts the body, and the outcome is the parse of it: the
\* call fails with HTTPBadRequest exactly when what was read is not JSON,
\* and a codec called on its own returns the object read
C11_ParsesWhatItRead ==
    /\ Len(call.out.consumed) <= Len(call.req.stream)
    /\ call.out.consumed = SubSeq(call.req.stream, 1, Len(call.out.consumed))
    /\ call.out.raised = (IF C11_IsJson(call.out.consumed) THEN "" ELSE "HTTPBadRequest")
    /\ (call.out.raised = "" /\ call.me # "registry")
          => call.out.ret = [kind |-> "object", v |-> call.out.consumed]

C11_AtMostDeclaredLength ==
    (call.req.content_length # <<>> /\ call.req.content_length[1] > 0)
       => Len(call.out.consumed) <= call.req.content_length[1]

C11_Unset == call.req.content_length = <<>> \/ call.req.content_length[1] = 0

\* the claim as stated: without a length the whole body is read
C11_ReadsAllWithoutLength ==
    C11_Deserialized =>
       /\ C11_ParsesWhatItRead
       /\ C11_AtMostDeclaredLength
       /\ C11_Unset => call.out.consumed = call.req.stream

\* C11 as amended: deserialize reads at most content_length bytes when
\* content_length is positive and reads no byte when content_length is None
\* or zero, then parses what it read (the empty document is not JSON, so the
\* call fails with HTTPBadRequest)
C11_ReadsNothingWithoutLength ==
    C11_Deserialized =>
       /\ C11_ParsesWhatItRead
       /\ C11_AtMostDeclaredLength
       /\ C11_Unset => (call.out.consumed = <<>> /\ call.out.raised = "HTTPBadRequest")

\* a body of two digits with a declared length of one: one digit is read
\* and returned
C11_Witness ==
    /\ C11_Deserialized
    /\ call.me = "json_extra"
    /\ call.req.stream = <<"1", "1">>
    /\ call.req.content_length = <<1>>
    /\ call.out.consumed = <<"1">>
    /\ call.out.ret = [kind |-> "object", v |-> <<"1">>]

----------------------------------------------------------------------------
(* Vocabulary of the serializer properties. *)

IsDefine == ser.op = "define"
IsToRepresentation == ser.op = "to_representation"
IsFromRepresentation == ser.op = "from_representation"
SerReturned == ser.raised = ""

\* the set of keys of a mapping
KeySet(d) == { d[i].key : i \in 1..Len(d) }

----------------------------------------------------------------------------
(* C12: for every serializer type the field mapping built at class         *)
(* definition equals the fields of the base types in base-declaration      *)
(* order followed by the fields newly declared on the type in declaration  *)
(* order, where a field name declared again in a derived type keeps a      *)
(* single entry at the position it already had and carries the derived     *)
(* type's field definition (replaced, not duplicated, not reordered).      *)

\* the fields of the bases, base after base
RECURSIVE C12_Inherited(_, _)
C12_Inherited(bases, i) ==
    IF i > Len(bases) THEN <<>>
    ELSE (IF bases[i].has_fields THEN bases[i].fields ELSE <<>>)
         \o C12_Inherited(bases, i + 1)

\* the fields the class body declares, in the order of the body
C12_Declared ==
    LET own == SelectSeq(ser.namespace, LAMBDA a : a.is_field)
    IN  [ i \in 1..Len(own) |-> Item(own[i].name, own[i].field) ]

\* inherited fields first, then the class's own
C12_All == C12_Inherited(ser.bases, 1) \o C12_Declared

\* where a name shows up first in that list
C12_First(name) ==
    CHOOSE i \in 1..Len(C12_All) :
       /\ C12_All[i].key = name
       /\ \A j \in 1..(i - 1) : C12_All[j].key # name

C12_FieldsAreInheritedThenDeclared ==
    IsDefine =>
       /\ KeySet(fields) = KeySet(C12_All)
       /\ \A i, j \in 1..Len(fields) : fields[i].key = fields[j].key => i = j
       /\ \A i, j \in 1..Len(fields) :
             i < j => C12_First(fields[i].key) < C12_First(fields[j].key)
       /\ \A i \in 1..Len(fields) :
             IF fields[i].key \in KeySet(C12_Declared)
             THEN Item(fields[i].key, fields[i].value) \in
                     { C12_Declared[k] : k \in 1..Len(C12_Declared) }
             ELSE Item(fields[i].key, fields[i].value) \in
                     { C12_All[k] : k \in 1..Len(C12_All) }

\* a class with two serializer bases declares again, with another field, a
\* name the first base has, and declares a new name: the class's field is
\* first, the new name last
C12_Witness ==
    /\ IsDefine
    /\ Len(ser.bases) = 2
    /\ ser.bases[1].has_fields /\ ser.bases[2].has_fields
    /\ Len(ser.bases[1].fields) > 0 /\ Len(C12_Declared) = 2
    /\ ser.bases[1].fields[1].key = C12_Declared[2].key
    /\ ser.bases[1].fields[1].value # C12_Declared[2].value
    /\ C12_Declared[1].key \notin KeySet(C12_Inherited(ser.bases, 1))
    /\ Len(fields) > 3
    /\ fields[1] = C12_Declared[2]
    /\ fields[Len(fields)] = C12_Declared[1]

----------------------------------------------------------------------------
(* C13: to_representation omits every field marked write_only from its     *)
(* output and includes every field marked read_only: for any object, the   *)
(* output's key set is exactly the names of the declared fields that are   *)
(* not write_only.                                                         *)

C13_WriteOnlyFieldsAreOmitted ==
    (IsToRepresentation /\ SerReturned) =>
       KeySet(ser.ret) = { fields[i].key : i \in { j \in 1..Len(fields) :
                                                     ~fields[j].value.write_only } }

----------------------------------------------------------------------------
(* C14: round trip: for a serializer whose fields have identity (pure)     *)
(* conversions, from_representation(to_representation(x)) returns, for     *)
(* every declared field, the value x holds under that field's source (or   *)
(* its name when it has no source), keyed by that source or name, and      *)
(* contains no other keys; attributes of x that no field declares are      *)
(* dropped.                                                                *)

\* the last call is from_representation(to_representation(x)) on a
\* serializer of identity fields
C14_RoundTrip ==
    /\ IsFromRepresentation
    /\ ser.fed
    /\ \A i \in 1..Len(fields) : fields[i].value.conv = "identity"

\* the key a field is stored under: its source, or its name without one
C14_Key(i) ==
    IF fields[i].value.source \in {NoneT, EmptyT}
    THEN fields[i].key ELSE fields[i].value.source

\* the value x holds under a key: all of x under '*', None under a key x
\* does not have
C14_Held(x, key) ==
    IF key = "*" THEN ObjV(x)
    ELSE IF \E k \in 1..Len(instance_items(x)) : instance_items(x)[k].key = key
         THEN instance_items(x)[CHOOSE k \in 1..Len(instance_items(x)) :
                                   instance_items(x)[k].key = key].value
         ELSE NoneV

\* the elements of a value as a list, the empty list for None
C14_Elements(value) == [kind |-> "list", v |-> value.v]

----------------------------------------------------------------------------
(* C15: for a field declared with many=True, from_representation applies   *)
(* the field's conversion to each element of the supplied sequence in      *)
(* order and returns the sequence of converted elements, and fails with a  *)
(* value/type error when the supplied external value is not a sequence     *)
(* (for example a single string) instead of converting it.                 *)

\* the value the representation of the last call has under a name
C15_Supplied(name) ==
    ser.representation[CHOOSE k \in 1..Len(ser.representation) :
                          ser.representation[k].key = name].value

\* the list of the converted elements of a list
C15_EachConverted(field, list) ==
    [kind |-> "list",
     v |-> [ k \in 1..Len(list.v) |->
               IF field.conv = "upper" THEN upper_char(list.v[k]) ELSE list.v[k] ]]

C15_ManyFieldsConvertEachElement ==
    IsFromRepresentation =>
       \A i \in 1..Len(fields) :
          (fields[i].value.many /\ fields[i].key \in KeySet(ser.representation)) =>
             IF C15_Supplied(fields[i].key).kind = "list"
             THEN /\ Len(fields) = 1 => SerReturned
                  /\ SerReturned =>
                        Item(fields[i].key,
                             C15_EachConverted(fields[i].value,
                                               C15_Supplied(fields[i].key))) \in
                           { ser.ret[k] : k \in 1..Len(ser.ret) }
             ELSE /\ ~SerReturned
                  /\ Len(fields) = 1 => ser.raised \in {"ValueError", "TypeError"}

----------------------------------------------------------------------------
(* C16: from_representation(representation, partial=True) converts exactly *)
(* the declared fields whose name is present in the representation and     *)
(* skips every absent field without error, so its result has one entry     *)
(* (keyed by source or name) per supplied declared field and none for      *)
(* absent fields or for undeclared keys.                                   *)

\* the declared fields the representation of the last call supplies
C16_SuppliedFields == { i \in 1..Len(fields) : fields[i].key \in KeySet(ser.representation) }

\* the call returns one entry per supplied declared field, holding what the
\* field makes of the supplied value; it fails only in the conversion of a
\* supplied field, never for an absent one
C16_PartialTakesSuppliedFieldsOnly ==
    (IsFromRepresentation /\ ser.partial) =>
       /\ SerReturned =>
             /\ KeySet(ser.ret) = { C14_Key(i) : i \in C16_SuppliedFields }
             /\ \A i \in C16_SuppliedFields :
                   fields[i].value.conv = "identity" =>
                      Item(C14_Key(i), C15_Supplied(fields[i].key)) \in
                         { ser.ret[k] : k \in 1..Len(ser.ret) }
       /\ ~SerReturned =>
             /\ ser.raised # "KeyError"
             /\ \E i \in C16_SuppliedFields : fields[i].value.conv # "identity"
       /\ (\A i \in C16_SuppliedFields : fields[i].value.conv = "identity") => SerReturned

\* a partial call that supplies one of three declared fields and a key no
\* field declares: one entry comes back
C16_Witness ==
    /\ IsFromRepresentation /\ ser.partial /\ SerReturned
    /\ Len(fields) = 3
    /\ ser.representation = << Item("name", StrV(<<"a", "b">>)), Item("bogus", StrV(<<"b">>)) >>
    /\ fields[2].key = "name" /\ fields[2].value.source = "_name"
    /\ ser.ret = << Item("_name", StrV(<<"a", "b">>)) >>

----------------------------------------------------------------------------
(* C17: a representation that contains the key of a field marked read_only *)
(* is rejected: deserializing it (the validate pre-flight check, and       *)
(* from_representation) raises a deserialization error instead of          *)
(* returning a mapping of internal values.                                 *)

C17_ReadOnlyKeyIsRejected ==
    (/\ IsFromRepresentation
     /\ \E i \in 1..Len(fields) :
           fields[i].value.read_only /\ fields[i].key \in KeySet(ser.representation))
       => ser.raised = "DeserializationError"

----------------------------------------------------------------------------
(* C18: '*' as a source always means the entire object and is never used   *)
(* as a literal key or attribute name: get_attribute(obj, '*') returns obj *)
(* unchanged, to_representation passes the whole object to a field whose   *)
(* source is '*', from_representation returns that field's converted value *)
(* under the field's external name, and neither from_representation nor    *)
(* set_attribute ever creates a key or attribute literally named '*'.      *)

C18_StarMeansTheWholeObject ==
    /\ (ser.op = "get_attribute" /\ ser.attr = "*") => ser.got = ObjV(ser.obj)
    /\ (IsToRepresentation /\ SerReturned) =>
          \A i \in 1..Len(fields) :
             fields[i].value.source = "*" =>
                Item(fields[i].key, ObjV(ser.obj)) \in { ser.ret[k] : k \in 1..Len(ser.ret) }
    /\ (IsFromRepresentation /\ SerReturned) =>
          /\ \A i \in 1..Len(fields) :
                (fields[i].value.source = "*" /\ fields[i].key \in KeySet(ser.representation))
                   => Item(fields[i].key, C15_Supplied(fields[i].key)) \in
                         { ser.ret[k] : k \in 1..Len(ser.ret) }
          /\ "*" \notin KeySet(ser.ret)
    /\ ser.op = "set_attribute" =>
          ("*" \in KeySet(ser.ret) => "*" \in KeySet(instance_items(ser.obj)))

----------------------------------------------------------------------------
(* C19: when several lookup_handler calls run concurrently on one shared   *)
(* registry, under every interleaving each call returns the same codec (or *)
(* the same error) it would return when run alone, and the final handler   *)
(* mapping equals the mapping produced by some sequential execution of the *)
(* same calls: the cache write behaves as an idempotent insert-if-absent   *)
(* and never replaces an existing binding with a different codec.          *)

\* the registry with a given handler mapping
C19_Registry(hs) ==
    [handlers |-> hs, default_media_type |-> default_media_type,
     allowed_media_types |-> allowed_media_types]

\* the outcome of thread t's call run alone on the registry the calls
\* started with
C19_Alone(t) ==
    lookup_handler(C19_Registry(threads[t].before), threads[t].args.media_type,
                   threads[t].args.default)

\* what a caller sees of an outcome
C19_Seen(out) == <<out.raised, out.ret, out.msg_type, out.msg_allowed>>

\* the orders the calls can be run in one after the other
C19_Orders ==
    { o \in [1..Cardinality(Threads) -> Threads] :
        \A i, j \in 1..Cardinality(Threads) : o[i] = o[j] => i = j }

\* the handler mapping after the calls run one after the other, from call i
\* of the order on
RECURSIVE C19_Sequential(_, _, _)
C19_Sequential(order, i, hs) ==
    IF i > Len(order) THEN hs
    ELSE C19_Sequential(order, i + 1,
             lookup_handler(C19_Registry(hs), threads[order[i]].args.media_type,
                            threads[order[i]].args.default).handlers)

C19_AllDone == \A t \in Threads : threads[t].pc = "done"

----------------------------------------------------------------------------
(* C20: lookup_handler changes the registry only by adding one binding for *)
(* the literal requested media type after a successful pattern resolution: *)
(* a lookup answered by the exact-match step and a lookup that raises      *)
(* unsupported-media-type leave handlers, default_media_type and           *)
(* allowed_media_types as they were, and no lookup removes a key or binds  *)
(* an existing key to another codec.                                       *)

\* the step of the state machine is a call of lookup_handler
C20_LookupStep == call = Idle /\ call'.op = "lookup_handler"

\* every binding of the mapping before the call is a binding after it
C20_KeepsBindings ==
    \A k \in dict_keys(handlers) :
        k \in dict_keys(handlers') /\ dict_get(handlers', k) = dict_get(handlers, k)

\* the one change allowed: the requested type, resolved by the pattern
\* match, is bound to the codec returned
C20_AddsResolved(s) ==
    /\ call'.out.raised = ""
    /\ s \notin dict_keys(handlers)
    /\ handlers' = dict_set(handlers, s, call'.out.ret.v[1])

C20_Frame ==
    LET s == Substituted(call'.media_type, call'.default)
    IN  C20_LookupStep =>
          /\ default_media_type' = default_media_type
          /\ allowed_media_types' = allowed_media_types
          /\ C20_KeepsBindings
          /\ handlers' # handlers => C20_AddsResolved(s)
          /\ (s \in dict_keys(handlers)
                \/ call'.out.raised = "HTTPUnsupportedMediaType") => handlers' = handlers

C20_LookupOnlyAddsTheResolvedType == [][C20_Frame]_vars

\* a lookup rejected a type on a registry of two keys and left them alone
C20_Witness ==
    /\ IsLookup
    /\ RaisedUnsupported
    /\ Cardinality(dict_keys(call.before)) >= 2
    /\ Substituted(call.media_type, call.default) \notin dict_keys(call.before)
    /\ handlers = call.before

----------------------------------------------------------------------------
(* C21: in every state reachable from a successfully constructed registry  *)
(* by lookup_handler, handle_request, handle_response, serialize and       *)
(* deserialize calls, allowed_media_types equals the key set of handlers   *)
(* and contains default_media_type, so the types an unsupported-media-type *)
(* message of the registry lists are exactly the types an exact lookup     *)
(* accepts.                                                                *)

\* the media types `self.handlers.get(media_type, None)` answers
C21_ExactlyAccepted(hs) == { k \in dict_keys(hs) : dict_get(hs, k) # NoneT }

C21_AllowedTypesAreTheKeys ==
    constructed = "ok" =>
       /\ allowed_media_types = dict_keys(handlers)
       /\ default_media_type \in allowed_media_types
       /\ (call.me = "registry" /\ RaisedUnsupported) =>
             /\ call.out.msg_allowed = C21_ExactlyAccepted(call.before)
             /\ call.out.msg_allowed = C21_ExactlyAccepted(handlers)

\* a registry built from supplied codecs, one key of it contributed by a
\* codec's allowed media types, rejected the type of a deserialize call
C21_Witness ==
    /\ constructed = "ok"
    /\ supplied.given
    /\ Len(handlers) > Len(supplied.items)
    /\ call.op = "deserialize"
    /\ RaisedUnsupported
    /\ call.out.msg_allowed = dict_keys(handlers)

----------------------------------------------------------------------------
(* C22: MediaHandlers.handle_request on a request whose effective content  *)
(* type is empty or '*/*' raises unsupported-media-type even when          *)
(* lookup_handler resolves the default codec for that input: the check     *)
(* against allowed_media_types is made on the type as given, not on the    *)
(* default substituted for it, and no codec's deserialize is invoked.      *)

\* `content_type or req.content_type`
C22_Effective == Or(call.media_type, call.req.content_type)

\* the registry handled a request of an empty or wildcard content type
C22_Blank ==
    /\ IsRequest
    /\ call.me = "registry"
    /\ C22_Effective \in {NoneT, EmptyT, AnyT}

\* the lookup handle_request makes resolves a codec
C22_LookupResolves ==
    lookup_handler(SelfBefore, C22_Effective, call.req.default_media_type).raised = ""

\* the request is rejected unread, and a resolved lookup is followed by the
\* rejection of the type as given
C22_Rejected ==
    /\ RaisedUnsupported
    /\ call.out.deserialized = {}
    /\ call.out.reads = 0
    /\ C22_LookupResolves =>
          /\ call.out.msg_type = C22_Effective
          /\ call.out.msg_allowed = allowed_media_types

\* the claim as stated: every such request is rejected
C22_BlankRequestIsRejected == C22_Blank => C22_Rejected

\* C22 as amended: the request is rejected unless its effective content
\* type is itself a member of allowed_media_types (a registry that registers
\* '*/*' as a key accepts '*/*')
C22_BlankRequestIsRejectedUnlessRegistered ==
    (C22_Blank /\ C22_Effective \notin allowed_media_types) => C22_Rejected

\* a one-digit JSON body sent as '*/*' to a registry whose default resolves
\* and that has no '*/*' key: rejected, naming '*/*'
C22_Witness ==
    /\ C22_Blank
    /\ C22_Effective = AnyT
    /\ AnyT \notin allowed_media_types
    /\ C22_LookupResolves
    /\ call.req.stream = <<"1">>
    /\ call.req.content_length = <<1>>
    /\ RaisedUnsupported
    /\ call.out.msg_type = AnyT

====
